---- MODULE Spec2Model ----
(***************************************************************************)
(* Prediction-run orchestration of housing-ml-pipeline.                    *)
(*                                                                         *)
(* PredictionService submits a record to the Dagster engine, stores the    *)
(* record, and answers polls by combining the engine's run status with the *)
(* predictions table.  The engine executes housing_prediction_job (the     *)
(* assets of assets.py) for every run.  The engine and the database       *)
(* outlive the process, so Init draws what an earlier run of the same job  *)
(* has left in them.                                                       *)
(*                                                                         *)
(* Numbers are integers (the fields are floats in the source; no operation *)
(* modelled here does arithmetic on them, only comparisons and copies).    *)
(***************************************************************************)
EXTENDS Integers, Sequences, FiniteSets, TLC

\* ------------------------------------------------------------------ bounds
\* Number of runs the service submits in a behaviour whose environment is
\* healthy (the database, the model artifact and the engine answer).
MaxRuns == 2
\* Number of runs the service submits in a behaviour in which every step
\* may meet a fault of the database, of the model artifact or of the
\* engine.
MaxFaultRuns == 1
\* Number of identifiers uuid4() hands out in a behaviour.
MaxUuids == 4
\* Number of keys in which a raw payload differs from the sample payload.
MaxDeviations == 2

\* ------------------------------------------------------------ vocabulary
NoVal == "<none>"

OldRun == "r0"
NewRunIds == {"r1", "r2", "r3"}
RunIds == {OldRun} \cup NewRunIds
\* A run id the engine has never issued.
GhostRun == "rX"
RunIdOf(n) == IF n = 1 THEN "r1" ELSE IF n = 2 THEN "r2" ELSE "r3"
UuidOf(n) ==
  IF n = 1 THEN "u1" ELSE IF n = 2 THEN "u2" ELSE IF n = 3 THEN "u3"
  ELSE IF n = 4 THEN "u4" ELSE IF n = 5 THEN "u5" ELSE "u6"

\* dagster.DagsterRunStatus, plus a value outside the enumeration.
NativeStatus ==
  {"QUEUED", "NOT_STARTED", "MANAGED", "STARTING", "STARTED",
   "SUCCESS", "FAILURE", "CANCELING", "CANCELED"}
Unrecognized == "UNRECOGNIZED"
Absent == "ABSENT"
TerminalNative == {"SUCCESS", "FAILURE", "CANCELED"}

Coarse == {"pending", "running", "completed", "failed"}

\* The status mapping of DagsterETLAdapter.get_pipeline_status.
MapStatusNoCancel(status) ==
  IF status = "SUCCESS" THEN "completed"
  ELSE IF status = "FAILURE" THEN "failed"
  ELSE IF status = "STARTED" THEN "running"
  ELSE "pending"

MapStatusStartingRuns(status) ==
  IF status = "SUCCESS" THEN "completed"
  ELSE IF status = "FAILURE" \/ status = "CANCELED" THEN "failed"
  ELSE IF status = "STARTING" THEN "running"
  ELSE "pending"

MapStatus(status) ==
  IF status = "SUCCESS" THEN "completed"
  ELSE IF status = "FAILURE" \/ status = "CANCELED" THEN "failed"
  ELSE IF status = "STARTED" THEN "running"
  ELSE "pending"

\* ---------------------------------------------------------------- records
valid_categories == <<"<1H OCEAN", "INLAND", "ISLAND", "NEAR BAY", "NEAR OCEAN">>
numeric_fields ==
  <<"longitude", "latitude", "housing_median_age", "total_rooms",
    "total_bedrooms", "population", "households", "median_income">>
NumericKeys == {numeric_fields[i] : i \in 1..Len(numeric_fields)}

\* HousingRecord instances (already validated entities), with the values of
\* the three documented samples rounded to integers.
RecordA ==
  [id |-> "a", longitude |-> -123, latitude |-> 38, housing_median_age |-> 36,
   total_rooms |-> 1336, total_bedrooms |-> 258, population |-> 678,
   households |-> 249, median_income |-> 6, ocean_proximity |-> "NEAR OCEAN"]
RecordB ==
  [id |-> "b", longitude |-> -116, latitude |-> 33, housing_median_age |-> 23,
   total_rooms |-> 1586, total_bedrooms |-> 448, population |-> 338,
   households |-> 182, median_income |-> 1, ocean_proximity |-> "INLAND"]
RecordC ==
  [id |-> "c", longitude |-> -118, latitude |-> 34, housing_median_age |-> 24,
   total_rooms |-> 1332, total_bedrooms |-> 252, population |-> 625,
   households |-> 230, median_income |-> 4, ocean_proximity |-> "<1H OCEAN"]
\* The record of the earlier run: as the service stored it at submission,
\* and as the run's cleaned_data built it again under an id of its own.
OldSubmitted == [RecordB EXCEPT !.id = "s0"]
RecordOld == [RecordB EXCEPT !.id = "u0"]
\* The requests callers post: the sample request, and one whose longitude
\* HousingRecord refuses.
Requests == {RecordA, [RecordA EXCEPT !.longitude = 200]}


\* ------------------------------------------------------------ raw payloads
\* A raw value of a numeric key: a number, a string that float() parses to
\* the number v, a string float() rejects, None, or the key is missing.
Num(v) == [t |-> "num", v |-> v]
NumStr(v) == [t |-> "numstr", v |-> v]
BadStr == [t |-> "badstr", v |-> 0]
NoneVal == [t |-> "none", v |-> 0]
Missing == [t |-> "missing", v |-> 0]
\* A value that is neither a string nor a number (a list, a mapping).
Other == [t |-> "other", v |-> 0]

NoRecord ==
  [id |-> NoVal, longitude |-> 0, latitude |-> 0, housing_median_age |-> 0,
   total_rooms |-> 0, total_bedrooms |-> 0, population |-> 0,
   households |-> 0, median_income |-> 0, ocean_proximity |-> NoVal]

\* record.model_dump() with "id" popped: the run configuration's data.
RawDataOf(record) ==
  [longitude |-> Num(record.longitude), latitude |-> Num(record.latitude),
   housing_median_age |-> Num(record.housing_median_age),
   total_rooms |-> Num(record.total_rooms),
   total_bedrooms |-> Num(record.total_bedrooms),
   population |-> Num(record.population),
   households |-> Num(record.households),
   median_income |-> Num(record.median_income),
   ocean_proximity |-> record.ocean_proximity, record_id |-> NoVal]

NoRaw == [RawDataOf(NoRecord) EXCEPT !.record_id = NoVal]

CoerceNothing(x) == x

\* The float() conversion loop of cleaned_data: numeric strings become
\* numbers; every other value is left as it is.
Coerce(x) == IF x.t = "numstr" THEN Num(x.v) ELSE x

IsNumber(x) == x.t = "num"

InCategoriesAnything(c) == TRUE

InCategories(c) == \E i \in 1..Len(valid_categories) : valid_categories[i] = c

\* The field validators of HousingRecord.
ValidateRecord(r) ==
  /\ r.longitude >= -180 /\ r.longitude <= 180
  /\ r.latitude >= -90 /\ r.latitude <= 90
  /\ r.housing_median_age >= 0
  /\ r.total_rooms >= 0 /\ r.total_bedrooms >= 0
  /\ r.population >= 0 /\ r.households >= 0
  /\ r.median_income >= 0
  /\ InCategories(r.ocean_proximity)

\* What an asset leaves: its output, or the error kind it raises with the
\* kind of the error it wraps (NoVal when it raises the error itself).
StageOk(out) == [ok |-> TRUE, err |-> NoVal, cause |-> NoVal, out |-> out]
StageErr(kind, cause) == [ok |-> FALSE, err |-> kind, cause |-> cause, out |-> NoRecord]

RecordIdAlwaysFresh(raw, uuid) == uuid

\* The id cleaned_data gives the HousingRecord: record_id when it is there
\* and not empty, else what the default factory draws from uuid4().
RecordId(raw, uuid) ==
  IF raw.record_id # NoVal /\ raw.record_id # "" THEN raw.record_id ELSE uuid

\* cleaned_data(raw_input); uuid is what uuid4() returns if it is asked.
\* The fill-in of a total_bedrooms that is None comes after the checks.
cleaned_data(raw, uuid) ==
  LET c == [f \in {numeric_fields[i] : i \in 1..Len(numeric_fields)} |->
              Coerce(raw[f])]
      badNonNeg(f) == ~IsNumber(c[f]) \/ c[f].v < 0
      rec == [id |-> RecordId(raw, uuid),
              longitude |-> c["longitude"].v, latitude |-> c["latitude"].v,
              housing_median_age |-> c["housing_median_age"].v,
              total_rooms |-> c["total_rooms"].v,
              total_bedrooms |-> IF c["total_bedrooms"].t \in {"none", "missing"}
                                 THEN 0 ELSE c["total_bedrooms"].v,
              population |-> c["population"].v,
              households |-> c["households"].v,
              median_income |-> c["median_income"].v,
              ocean_proximity |-> raw.ocean_proximity]
  IN  IF \E i \in 1..Len(numeric_fields) : raw[numeric_fields[i]].t = "badstr"
        THEN StageErr("DataValidationError", "ValueError")
      ELSE IF ~IsNumber(c["longitude"]) \/ ~IsNumber(c["latitude"])
        THEN StageErr("DataValidationError", NoVal)
      ELSE IF \/ badNonNeg("housing_median_age") \/ badNonNeg("total_rooms")
              \/ badNonNeg("total_bedrooms") \/ badNonNeg("population")
              \/ badNonNeg("households") \/ badNonNeg("median_income")
        THEN StageErr("DataValidationError", NoVal)
      ELSE IF raw.ocean_proximity = NoVal \/ raw.ocean_proximity = ""
        THEN StageErr("DataValidationError", NoVal)
      ELSE IF ~InCategories(raw.ocean_proximity)
        THEN StageErr("DataValidationError", NoVal)
      ELSE IF ~ValidateRecord(rec)
        THEN StageErr("DataCleaningError", "ValidationError")
      ELSE StageOk(rec)

\* Whether the payload leaves the id of the record to the default factory.
NeedsUuid(raw) == raw.record_id = NoVal \/ raw.record_id = ""

\* Whether cleaned_data draws an identifier from uuid4(): the payload
\* carries no id and passes the asset's own checks, so that HousingRecord
\* is constructed; the default factory runs before the validators decide.
DrawsUuid(raw) ==
  /\ NeedsUuid(raw)
  /\ \/ cleaned_data(raw, NoVal).ok
     \/ cleaned_data(raw, NoVal).err = "DataCleaningError"

\* f"ocean_proximity_{category}": the key of a category's feature.
FeatureKey(category) ==
  CASE category = "<1H OCEAN" -> "ocean_proximity_<1H OCEAN"
    [] category = "INLAND" -> "ocean_proximity_INLAND"
    [] category = "ISLAND" -> "ocean_proximity_ISLAND"
    [] category = "NEAR BAY" -> "ocean_proximity_NEAR BAY"
    [] category = "NEAR OCEAN" -> "ocean_proximity_NEAR OCEAN"
    [] OTHER -> NoVal

\* prepared_data(cleaned_data): the feature dictionary, the eight numeric
\* fields under their names and a 0 or 1 under the key of each category.
prepared_data(rec) ==
  [k \in NumericKeys \cup
          {FeatureKey(valid_categories[i]) : i \in 1..Len(valid_categories)} |->
     IF k \in NumericKeys THEN rec[k]
     ELSE IF k = FeatureKey(rec.ocean_proximity) THEN 1 ELSE 0]

expected_features_by_name ==
  <<"households", "housing_median_age", "latitude", "longitude",
    "median_income", "population", "total_bedrooms", "total_rooms",
    "ocean_proximity_<1H OCEAN", "ocean_proximity_INLAND",
    "ocean_proximity_ISLAND", "ocean_proximity_NEAR BAY",
    "ocean_proximity_NEAR OCEAN">>

\* ModelResource.predict: the order in which the model takes the features.
expected_features ==
  <<"longitude", "latitude", "housing_median_age", "total_rooms",
    "total_bedrooms", "population", "households", "median_income",
    "ocean_proximity_<1H OCEAN", "ocean_proximity_INLAND",
    "ocean_proximity_ISLAND", "ocean_proximity_NEAR BAY",
    "ocean_proximity_NEAR OCEAN">>

\* ModelResource.predict: the values in the order of expected_features.
feature_values(data) ==
  [i \in 1..Len(expected_features) |-> data[expected_features[i]]]

ocean_proximity_map_by_distance(category) ==
  CASE category = "<1H OCEAN" -> <<0, 0, 1, 0, 0>>
    [] category = "INLAND" -> <<0, 0, 0, 0, 1>>
    [] category = "ISLAND" -> <<1, 0, 0, 0, 0>>
    [] category = "NEAR BAY" -> <<0, 1, 0, 0, 0>>
    [] category = "NEAR OCEAN" -> <<0, 0, 0, 1, 0>>
    [] OTHER -> <<0, 0, 0, 0, 0>>

\* SklearnModelAdapter._record_to_features: the one-hot code of each
\* category ("OUT OF REACH", the code of a record without category, is all
\* zeros).
ocean_proximity_map(category) ==
  CASE category = "<1H OCEAN" -> <<1, 0, 0, 0, 0>>
    [] category = "INLAND" -> <<0, 1, 0, 0, 0>>
    [] category = "ISLAND" -> <<0, 0, 1, 0, 0>>
    [] category = "NEAR BAY" -> <<0, 0, 0, 1, 0>>
    [] category = "NEAR OCEAN" -> <<0, 0, 0, 0, 1>>
    [] OTHER -> <<0, 0, 0, 0, 0>>

\* SklearnModelAdapter._record_to_features: the feature array of a record.
record_to_features(record) ==
  <<record.longitude, record.latitude, record.housing_median_age,
    record.total_rooms, record.total_bedrooms, record.population,
    record.households, record.median_income>>
  \o ocean_proximity_map(record.ocean_proximity)

\* What the artifact answers on features it is not documented for: it is
\* an opaque regressor, whose output may be any number, below zero too.
OtherOutputs == {1962, -438}

\* self._model.predict(features)[0]: the values the model artifact can
\* answer.  The artifact is a function of the 13 features that the
\* repository does not define; on the three documented samples it answers
\* the documented value (rounded).
ModelPredict(features) ==
  IF features = feature_values(prepared_data(RecordA)) THEN {320202}
  ELSE IF features = feature_values(prepared_data(RecordB)) THEN {58815}
  ELSE IF features = feature_values(prepared_data(RecordC)) THEN {192576}
  ELSE OtherOutputs

\* What the artifact answered in the earlier run.
OldValue == CHOOSE v \in ModelPredict(feature_values(prepared_data(RecordOld))) : TRUE

\* ------------------------------------------------------------- Prediction
\* The declared fields of the Prediction entity (there is no "id" field).
PredictionFields ==
  {"record_id", "value", "created_at", "status", "record", "error", "run_id"}

PredictionFieldsWithId == PredictionFields \cup {"id"}

\* The fields of Prediction that have no default.
PredictionRequired == {"record_id", "value", "created_at"}

\* The defaults of the four fields that have one.
PredictionDefault(f) ==
  CASE f = "status" -> "pending"
    [] f = "record" -> NoRecord
    [] f \in {"error", "run_id"} -> NoVal

\* Whether Prediction(**kwargs) raises ValidationError: a required field
\* is missing (no validator looks at the values).
PredictionRaises(kwargs) == ~(PredictionRequired \subseteq DOMAIN kwargs)

\* Prediction(**kwargs) when it does not raise: declared fields are kept
\* (defaults fill the optional ones), undeclared keyword arguments are
\* ignored.
NewPredictionOver(fields, kwargs) ==
  [f \in fields |-> IF f \in DOMAIN kwargs THEN kwargs[f] ELSE PredictionDefault(f)]

NewPrediction(kwargs) == NewPredictionOver(PredictionFields, kwargs)

\* The place of a Prediction where there is none (None).
NoPrediction ==
  [record_id |-> NoVal, value |-> 0, created_at |-> NoVal, status |-> NoVal,
   record |-> NoRecord, error |-> NoVal, run_id |-> NoVal]

\* ------------------------------------------------------------------ state
Ops == {"raw_input", "cleaned_data", "stored_cleaned_data", "prepared_data",
        "prediction_result", "stored_prediction_result"}

DepsWithoutStoredRecord(op) ==
  IF op = "raw_input" THEN {}
  ELSE IF op = "cleaned_data" THEN {"raw_input"}
  ELSE IF op = "stored_cleaned_data" THEN {"cleaned_data"}
  ELSE IF op = "prepared_data" THEN {"cleaned_data"}
  ELSE {"prepared_data"}

\* housing_prediction_job: the upstream assets of each asset.
Deps(op) ==
  IF op = "raw_input" THEN {}
  ELSE IF op = "cleaned_data" THEN {"raw_input"}
  ELSE IF op = "stored_cleaned_data" THEN {"cleaned_data"}
  ELSE IF op = "prepared_data" THEN {"cleaned_data"}
  ELSE IF op = "prediction_result" THEN {"prepared_data"}
  ELSE {"prediction_result", "stored_cleaned_data"}

VARIABLES
  engine,       \* run id -> native status of the run in the engine, or Absent
  job,          \* run id -> configuration, finished assets and their outputs
  records,      \* rows of cleaned_housing_records
  predictions,  \* rows of predictions
  nextRun,      \* number of run ids the engine has issued to the service
  nextUuid,     \* number of identifiers uuid4() has handed out
  inflight,     \* the submission that has started its run and has not
                \* stored its record yet, if there is one
  last          \* the service call that returned in the latest step, if
                \* one did, with what it saw and what it answered

vars == <<engine, job, records, predictions, nextRun, nextUuid, inflight, last>>

\* The feature dictionary of a run whose prepared_data has not finished.
NoFeatures == << >>

\* What the engine holds for a run: its configuration, the assets that
\* have finished and their outputs, and the step that failed with its
\* error.  (submitted is the id of the record the run was started for; the
\* engine does not hold it, the configuration goes without the id.)
NoJob == [cfg |-> NoRaw, submitted |-> NoVal, done |-> {},
          cleaned |-> NoRecord,
          stored |-> NoVal, prepared |-> NoFeatures, pred |-> 0,
          step |-> NoVal, failed |-> NoVal, err |-> NoVal, cause |-> NoVal]

NoEtl == [raised |-> FALSE, err |-> NoVal, cause |-> NoVal, native |-> NoVal,
          status |-> NoVal]
NoStore == [called |-> FALSE, raised |-> FALSE, err |-> NoVal, found |-> FALSE,
            pred |-> NoPrediction]
NoResult == [kind |-> "none", status |-> NoVal, pred |-> NoPrediction]
\* A response of the API: its class, and its fields (completed_at is NoVal
\* in a class that has no such field, status_code is 0 in a class other
\* than HTTPException).
NoResponse == [cls |-> NoVal, run_id |-> NoVal, status |-> NoVal,
               has_prediction |-> FALSE, prediction |-> 0,
               completed_at |-> NoVal, status_code |-> 0]
NoCall == [op |-> "none", run |-> NoVal, record |-> NoRecord, etl |-> NoEtl,
           store |-> NoStore, raised |-> NoVal, result |-> NoResult,
           response |-> NoResponse]

NoSubmission == [record |-> NoRecord, run |-> NoVal]

Issued == {r \in RunIds : engine[r] # Absent}

\* How the earlier run ended.  No run of this job persists its Prediction
\* (stored_prediction_result fails on every input), so the run failed in
\* its last step with its cleaned record stored, or it was cancelled
\* before it was launched; the predictions table is empty.
OldEnds == {"FAILURE", "CANCELED"}

OldJob(end) ==
  IF end = "FAILURE"
    THEN [NoJob EXCEPT
            !.cfg = RawDataOf(OldSubmitted), !.submitted = OldSubmitted.id,
            !.done = Ops \ {"stored_prediction_result"},
            !.cleaned = RecordOld, !.stored = RecordOld.id,
            !.prepared = prepared_data(RecordOld), !.pred = OldValue,
            !.step = "stored_prediction_result",
            !.failed = "stored_prediction_result",
            !.err = "PredictionError", !.cause = "AttributeError"]
    ELSE [NoJob EXCEPT !.cfg = RawDataOf(OldSubmitted),
                       !.submitted = OldSubmitted.id]

Init ==
  \E end \in OldEnds :
    /\ engine = [r \in RunIds |-> IF r = OldRun THEN end ELSE Absent]
    /\ job = [r \in RunIds |-> IF r = OldRun THEN OldJob(end) ELSE NoJob]
    /\ records = IF end = "FAILURE" THEN {OldSubmitted, RecordOld}
                 ELSE {OldSubmitted}
    /\ predictions = {}
    /\ nextRun = 0
    /\ nextUuid = 0
    /\ inflight = NoSubmission
    /\ last = NoCall

\* ------------------------------------------------------- DagsterETLAdapter
ClientErrors == {"DagsterGraphQLClientError", "Exception"}

\* client.get_run_status(run_id): the engine's status of the run, or an
\* error (a transport failure, or a run id the engine does not know).
ClientRunStatus(run_id, clientErr) ==
  LET native == IF run_id \in RunIds THEN engine[run_id] ELSE Absent
  IN  IF clientErr # "none" THEN [raised |-> TRUE, err |-> clientErr, native |-> NoVal]
      ELSE IF native = Absent
        THEN [raised |-> TRUE, err |-> "DagsterGraphQLClientError", native |-> NoVal]
      ELSE [raised |-> FALSE, err |-> NoVal, native |-> native]

get_pipeline_status_swallow(reply) ==
  IF reply.raised
    THEN [raised |-> FALSE, err |-> NoVal, cause |-> reply.err,
          native |-> NoVal, status |-> "failed"]
    ELSE [raised |-> FALSE, err |-> NoVal, cause |-> NoVal,
          native |-> reply.native, status |-> MapStatus(reply.native)]

\* DagsterETLAdapter.get_pipeline_status, given the client's reply.
get_pipeline_status(reply) ==
  IF reply.raised
    THEN [raised |-> TRUE, err |-> "PipelineError", cause |-> reply.err,
          native |-> NoVal, status |-> NoVal]
    ELSE [raised |-> FALSE, err |-> NoVal, cause |-> NoVal,
          native |-> reply.native, status |-> MapStatus(reply.native)]

PipelineStatusOfLatestRun(run_id, clientErr) ==
  get_pipeline_status(
    ClientRunStatus(IF nextRun > 0 THEN RunIdOf(nextRun) ELSE run_id, clientErr))

\* DagsterETLAdapter.get_pipeline_status(run_id): the status of the run
\* whose id it is given, as the client reports it.
PipelineStatus(run_id, clientErr) ==
  get_pipeline_status(ClientRunStatus(run_id, clientErr))

\* --------------------------------------------------------- PostgresAdapter
\* The ways the database fails save_housing_record: a statement up to the
\* commit raises, and nothing is stored; or the commit goes through and
\* reading the id of the row back (the refresh of the expired object, still
\* inside the try) raises, with the row stored.
DbFaults == {"statement", "refresh"}

\* PostgresAdapter.save_housing_record: the error it raises (NoVal when it
\* returns the id) and whether the row is in the table afterwards.  The
\* commit also fails on a duplicate primary key.
save_housing_record(record, dbFault) ==
  IF dbFault = "statement" \/ \E row \in records : row.id = record.id
    THEN [err |-> "StorageError", stored |-> FALSE]
  ELSE IF dbFault = "refresh" THEN [err |-> "StorageError", stored |-> TRUE]
  ELSE [err |-> NoVal, stored |-> TRUE]

\* PostgresAdapter.get_prediction: the outcomes the call can have (first()
\* returns any one of the rows that carry the run id).
get_prediction_any_row(run_id, dbErr) ==
  IF dbErr THEN {[NoStore EXCEPT !.called = TRUE, !.raised = TRUE, !.err = "StorageError"]}
  ELSE IF predictions = {}
    THEN {[NoStore EXCEPT !.called = TRUE]}
  ELSE {[NoStore EXCEPT !.called = TRUE, !.found = TRUE,
           !.pred = NewPrediction(
              [id |-> row.id, record_id |-> row.cleaned_record_id,
               value |-> row.prediction_value, created_at |-> "t",
               run_id |-> row.run_id,
               record |-> CHOOSE c \in records : c.id = row.cleaned_record_id,
               status |-> "completed"])] : row \in predictions}

get_prediction_unwrapped(run_id, dbErr) ==
  IF dbErr THEN {[NoStore EXCEPT !.called = TRUE, !.raised = TRUE,
                                 !.err = "OperationalError"]}
  ELSE get_prediction_any_row(run_id, FALSE)

\* Only SQLAlchemyError is caught: the ValidationError of a cleaned record
\* that HousingRecord refuses leaves the call as it is.
get_prediction(run_id, dbErr) ==
  LET rows == {row \in predictions : row.run_id = run_id}
      cleaned_record(row) == CHOOSE c \in records : c.id = row.cleaned_record_id
  IN  IF dbErr THEN {[NoStore EXCEPT !.called = TRUE, !.raised = TRUE, !.err = "StorageError"]}
      ELSE IF rows = {}
        THEN {[NoStore EXCEPT !.called = TRUE]}
      ELSE {IF ~ValidateRecord(cleaned_record(row))
              THEN [NoStore EXCEPT !.called = TRUE, !.raised = TRUE,
                                   !.err = "ValidationError"]
              ELSE [NoStore EXCEPT !.called = TRUE, !.found = TRUE,
                      !.pred = NewPrediction(
                         [id |-> row.id, record_id |-> row.cleaned_record_id,
                          value |-> row.prediction_value, created_at |-> "t",
                          run_id |-> row.run_id,
                          record |-> cleaned_record(row),
                          status |-> "completed"])] : row \in rows}

\* PostgresAdapter.get_housing_record: the error it raises (NoVal when it
\* returns) and the record it returns (NoRecord for None).
get_housing_record(record_id, dbErr) ==
  LET rows == {row \in records : row.id = record_id}
  IN  IF dbErr THEN [err |-> "StorageError", record |-> NoRecord]
      ELSE IF rows = {} THEN [err |-> NoVal, record |-> NoRecord]
      ELSE LET row == CHOOSE row \in rows : TRUE
           IN  IF ~ValidateRecord(row)
                 THEN [err |-> "ValidationError", record |-> NoRecord]
                 ELSE [err |-> NoVal, record |-> row]

\* PostgresAdapter.save_prediction: the error it raises, or NoVal.  Reading
\* prediction.id comes first; the commit fails on a backend error, a
\* duplicate primary key, or a cleaned_record_id with no cleaned record.
save_prediction_err(prediction, dbErr) ==
  IF "id" \notin DOMAIN prediction THEN "AttributeError"
  ELSE IF \/ dbErr
          \/ \E row \in predictions : row.id = prediction["id"]
          \/ ~\E c \in records : c.id = prediction["record_id"]
    THEN "StorageError"
  ELSE NoVal

PredictionRowOf(prediction) ==
  [id |-> prediction["id"], cleaned_record_id |-> prediction["record_id"],
   prediction_value |-> prediction["value"], run_id |-> prediction["run_id"]]

\* ------------------------------------------------------- PredictionService
Str(status) == [kind |-> "str", status |-> status, pred |-> NoPrediction]
Found(prediction) ==
  [kind |-> "Prediction", status |-> prediction["status"], pred |-> prediction]

\* Whether get_prediction_result reaches storage.get_prediction.
CallsStorageAlways(etl) == ~etl.raised

CallsStorage(etl) == ~etl.raised /\ etl.status = "completed"

get_prediction_result_pending(etl, store) ==
  IF etl.raised THEN Str("failed")
  ELSE IF etl.status = "failed" THEN Str("failed")
  ELSE IF etl.status = "completed"
    THEN IF store.raised THEN Str("failed")
         ELSE IF ~store.found THEN Str("pending")
         ELSE Found(store.pred)
  ELSE Str(etl.status)

get_prediction_result_reraise(etl, store) ==
  IF etl.raised THEN [kind |-> "raise", status |-> etl.err, pred |-> NoPrediction]
  ELSE IF etl.status = "failed" THEN Str("failed")
  ELSE IF etl.status = "completed"
    THEN IF store.raised
           THEN [kind |-> "raise", status |-> store.err, pred |-> NoPrediction]
         ELSE IF ~store.found THEN Str("failed")
         ELSE Found(store.pred)
  ELSE Str(etl.status)

\* PredictionService.get_prediction_result, given what the two collaborators
\* answered (store is NoStore when storage is not reached).
get_prediction_result(etl, store) ==
  IF etl.raised THEN Str("failed")
  ELSE IF etl.status = "failed" THEN Str("failed")
  ELSE IF etl.status = "completed"
    THEN IF store.raised THEN Str("failed")
         ELSE IF ~store.found THEN Str("failed")
         ELSE Found(store.pred)
  ELSE Str(etl.status)

\* ---------------------------------------------------------- FastAPIHandler
PredictionPendingResponse(run_id, status) ==
  [NoResponse EXCEPT !.cls = "PredictionPendingResponse", !.run_id = run_id,
                     !.status = status]
PredictionFailedResponse(run_id, completed_at) ==
  [NoResponse EXCEPT !.cls = "PredictionFailedResponse", !.run_id = run_id,
                     !.status = "failed", !.completed_at = completed_at]
PredictionCompletedResponse(run_id, value, completed_at) ==
  [NoResponse EXCEPT !.cls = "PredictionCompletedResponse", !.run_id = run_id,
                     !.status = "completed", !.has_prediction = TRUE,
                     !.prediction = value, !.completed_at = completed_at]

get_prediction_result_response_pending(run_id, result) ==
  IF result.kind = "str"
    THEN IF result.status = "failed"
           THEN PredictionFailedResponse(run_id, "now")
           ELSE PredictionPendingResponse(run_id, "pending")
  ELSE IF result.pred["status"] = "completed"
    THEN PredictionCompletedResponse(result.pred["run_id"], result.pred["value"],
                                     result.pred["created_at"])
  ELSE IF result.pred["status"] = "failed"
    THEN PredictionFailedResponse(result.pred["run_id"], result.pred["created_at"])
  ELSE PredictionPendingResponse(result.pred["run_id"], result.pred["status"])

\* FastAPIHandler.get_prediction_result, given what the service returned:
\* the response for a status string, or for a Prediction.
get_prediction_result_response(run_id, result) ==
  IF result.kind = "str"
    THEN IF result.status = "failed"
           THEN PredictionFailedResponse(run_id, "now")
           ELSE PredictionPendingResponse(
                  run_id, IF result.status \in Coarse THEN result.status
                          ELSE "pending")
  ELSE IF result.pred["status"] = "completed"
    THEN PredictionCompletedResponse(result.pred["run_id"], result.pred["value"],
                                     result.pred["created_at"])
  ELSE IF result.pred["status"] = "failed"
    THEN PredictionFailedResponse(result.pred["run_id"], result.pred["created_at"])
  ELSE PredictionPendingResponse(result.pred["run_id"], result.pred["status"])

GetPredictionResultReadOnce(run_id, clientErr, dbErr) ==
  LET etl == PipelineStatus(run_id, clientErr)
  IN  /\ inflight = NoSubmission
      /\ dbErr => CallsStorage(etl)
      /\ \E store \in (IF CallsStorage(etl) THEN get_prediction(run_id, dbErr)
                       ELSE {NoStore}) :
           LET result == get_prediction_result(etl, store)
           IN  /\ last' = [NoCall EXCEPT !.op = "get_prediction_result",
                             !.run = run_id, !.etl = etl, !.store = store,
                             !.result = result,
                             !.response =
                               get_prediction_result_response(run_id, result)]
               /\ predictions' = IF store.found
                                  THEN {row \in predictions : row.run_id # run_id}
                                  ELSE predictions
               /\ UNCHANGED <<engine, job, records, nextRun, nextUuid, inflight>>

\* One poll of run_id through the API: the whole of get_prediction_result
\* of the service, and the response the handler makes of what it returned.
\* The database can fail (dbErr) only in a poll that reaches it.  The
\* service runs its calls on one event loop, and no call of it yields the
\* loop before it returns: a poll runs when no submission is under way.
GetPredictionResult(run_id, clientErr, dbErr) ==
  LET etl == PipelineStatus(run_id, clientErr)
  IN  /\ inflight = NoSubmission
      /\ dbErr => CallsStorage(etl)
      /\ \E store \in (IF CallsStorage(etl) THEN get_prediction(run_id, dbErr)
                       ELSE {NoStore}) :
           LET result == get_prediction_result(etl, store)
           IN  /\ last' = [NoCall EXCEPT !.op = "get_prediction_result",
                             !.run = run_id, !.etl = etl, !.store = store,
                             !.result = result,
                             !.response =
                               get_prediction_result_response(run_id, result)]
               /\ UNCHANGED <<engine, job, records, predictions, nextRun,
                              nextUuid, inflight>>

\* What submit_job_execution makes of the run it creates.
SubmittedStatus == {"QUEUED", "NOT_STARTED"}

\* DagsterETLAdapter.start_prediction_pipeline, given what
\* submit_job_execution raises ("none" when it returns): both except
\* clauses log the error and re-raise it with a bare raise, so the caller
\* gets the client's error itself, with no cause attached.
start_prediction_pipeline(clientErr) ==
  IF clientErr = "none" THEN [raised |-> FALSE, err |-> NoVal, cause |-> NoVal]
  ELSE [raised |-> TRUE, err |-> clientErr, cause |-> NoVal]

to_housing_record_keyed(request, uuid) ==
  [request EXCEPT !.id = IF ValidateRecord(request) THEN "ka" ELSE "kb"]

\* PredictionRequest.to_housing_record: the record of a request, under the
\* id its default factory draws from uuid4().
to_housing_record(request, uuid) == [request EXCEPT !.id = uuid]

PredictionSubmissionResponse(run_id) ==
  [NoResponse EXCEPT !.cls = "PredictionSubmissionResponse", !.run_id = run_id,
                     !.status = "pending"]
HTTPException(status_code) ==
  [NoResponse EXCEPT !.cls = "HTTPException", !.status_code = status_code]

\* FastAPIHandler.submit_prediction_request, given the error that reached
\* it (NoVal when none did): a ValueError, which the ValidationError of
\* HousingRecord is, becomes 400 and any other error 500.
submit_prediction_request_response(raised, run_id) ==
  IF raised = NoVal THEN PredictionSubmissionResponse(run_id)
  ELSE IF raised \in {"ValueError", "ValidationError"} THEN HTTPException(400)
  ELSE HTTPException(500)

\* The submission that returns: what it saw and what it answered.  start
\* is what start_prediction_pipeline did, saveErr what save_housing_record
\* raised (NoVal when it returned or was not called).
SubmissionCall(record, run_id, start, saveCalled, saveErr) ==
  LET raised == IF start.raised THEN start.err ELSE saveErr
  IN  [NoCall EXCEPT
         !.op = "submit_prediction_request",
         !.record = record,
         !.run = run_id,
         !.etl = [NoEtl EXCEPT !.raised = start.raised, !.err = start.err,
                               !.cause = start.cause],
         !.store = [NoStore EXCEPT !.called = saveCalled,
                                   !.raised = saveErr # NoVal, !.err = saveErr],
         !.raised = raised,
         !.result = IF raised = NoVal
                    THEN [NoResult EXCEPT !.kind = "run_id", !.status = run_id]
                    ELSE NoResult,
         !.response = submit_prediction_request_response(raised, run_id)]

StartPredictionPipelineSavingFirst(record, clientErr) ==
  LET start == start_prediction_pipeline(clientErr)
  IN  /\ inflight = NoSubmission
      /\ records' = records \cup {record}
      /\ IF start.raised
           THEN /\ last' = SubmissionCall(record, NoVal, start, TRUE, NoVal)
                /\ UNCHANGED <<engine, job, nextRun, inflight>>
           ELSE LET run_id == RunIdOf(nextRun + 1)
                IN  /\ \E st \in SubmittedStatus :
                         engine' = [engine EXCEPT ![run_id] = st]
                    /\ job' = [job EXCEPT ![run_id] =
                                 [NoJob EXCEPT !.cfg = RawDataOf(record),
                                               !.submitted = record.id]]
                    /\ nextRun' = nextRun + 1
                    /\ inflight' = [record |-> record, run |-> run_id]
                    /\ last' = NoCall
      /\ UNCHANGED predictions

\* The first half of PredictionService.submit_prediction_request: the
\* awaited start_prediction_pipeline.  When the client raises, the error
\* reaches the caller and the call returns; else the engine holds the new
\* run, under a configuration without the record's id, and the call goes
\* on to store the record.
StartPredictionPipeline(record, clientErr) ==
  LET start == start_prediction_pipeline(clientErr)
  IN  /\ inflight = NoSubmission
      /\ IF start.raised
           THEN /\ last' = SubmissionCall(record, NoVal, start, FALSE, NoVal)
                /\ UNCHANGED <<engine, job, nextRun, inflight>>
           ELSE LET run_id == RunIdOf(nextRun + 1)
                IN  /\ \E st \in SubmittedStatus :
                         engine' = [engine EXCEPT ![run_id] = st]
                    /\ job' = [job EXCEPT ![run_id] =
                                 [NoJob EXCEPT !.cfg = RawDataOf(record),
                                               !.submitted = record.id]]
                    /\ nextRun' = nextRun + 1
                    /\ inflight' = [record |-> record, run |-> run_id]
                    /\ last' = NoCall
      /\ UNCHANGED <<records, predictions>>

\* The second half of PredictionService.submit_prediction_request:
\* save_housing_record, whose error is re-raised as it is, and the return
\* of the run id.  The engine is another process: between the two halves
\* it may have launched the run and executed its steps.  Nothing is done
\* about the run when the save raises.
StoreSubmittedRecord(dbFault) ==
  /\ inflight # NoSubmission
  /\ LET save == save_housing_record(inflight.record, dbFault)
     IN  /\ records' = IF save.stored THEN records \cup {inflight.record}
                       ELSE records
         /\ last' = SubmissionCall(inflight.record, inflight.run,
                                   start_prediction_pipeline("none"), TRUE,
                                   save.err)
  /\ inflight' = NoSubmission
  /\ UNCHANGED <<engine, job, predictions, nextRun, nextUuid>>

\* One request posted to the API: FastAPIHandler.submit_prediction_request
\* up to the return of start_prediction_pipeline.  to_housing_record draws
\* the record's id; a request HousingRecord refuses is answered 400 (the
\* default factory has drawn the id by then).
SubmitPredictionRequest(request, clientErr) ==
  /\ nextUuid < MaxUuids
  /\ nextUuid' = nextUuid + 1
  /\ LET record == to_housing_record(request, UuidOf(nextUuid + 1))
     IN  IF ValidateRecord(record)
           THEN StartPredictionPipeline(record, clientErr)
           ELSE /\ inflight = NoSubmission
                /\ clientErr = "none"
                /\ last' = [NoCall EXCEPT
                              !.op = "submit_prediction_request",
                              !.raised = "ValidationError",
                              !.response = submit_prediction_request_response(
                                             "ValidationError", NoVal)]
                /\ UNCHANGED <<engine, job, records, predictions, nextRun, inflight>>

\* -------------------------------------------------- housing_prediction_job
\* No call of the service returns in a step of the engine, and none
\* starts.
Quiet == last' = NoCall /\ UNCHANGED inflight

Runnable(r, op) ==
  /\ engine[r] = "STARTED"
  /\ op \notin job[r].done
  /\ Deps(op) \subseteq job[r].done

Finish(r, op, j) ==
  /\ job' = [job EXCEPT ![r] = [j EXCEPT !.done = @ \cup {op}]]
  /\ UNCHANGED engine

FailWithCause(r, op, kind, cause) ==
  /\ job' = [job EXCEPT ![r].step = op, ![r].failed = op,
                         ![r].err = IF cause # NoVal THEN cause ELSE kind,
                         ![r].cause = NoVal]
  /\ engine' = [engine EXCEPT ![r] = "FAILURE"]

\* An asset that raises fails its step, and the engine fails the run.
Fail(r, op, kind, cause) ==
  /\ job' = [job EXCEPT ![r].step = op, ![r].failed = op, ![r].err = kind,
                         ![r].cause = cause]
  /\ engine' = [engine EXCEPT ![r] = "FAILURE"]

\* The setup of a resource of the step op raises: the asset is not called,
\* nothing wraps the error, and the engine fails the run.
FailSetup(r, op, err) ==
  /\ job' = [job EXCEPT ![r].step = op, ![r].failed = "setup_for_execution",
                         ![r].err = err, ![r].cause = NoVal]
  /\ engine' = [engine EXCEPT ![r] = "FAILURE"]

\* No fault of a resource in a step.
NoFault == [at |-> "none", err |-> NoVal]

\* The ways the database fails a step that takes the postgres resource:
\* PostgresResource.setup_for_execution builds the PostgresAdapter, whose
\* __init__ runs create_all, before the asset is called; get_adapter builds
\* it inside the asset when nothing has set the resource up before; the
\* adapter's method meets a fault of the database (DbFaults), which it
\* raises as StorageError.
StorageFaults ==
  {[at |-> at, err |-> "OperationalError"] :
     at \in {"setup_for_execution", "get_adapter"}}
  \cup {[at |-> at, err |-> "StorageError"] : at \in DbFaults}

RawInput(r) ==
  /\ Runnable(r, "raw_input")
  /\ Finish(r, "raw_input", job[r])
  /\ Quiet /\ UNCHANGED <<records, predictions, nextRun, nextUuid>>

CleanedData(r) ==
  /\ Runnable(r, "cleaned_data")
  /\ DrawsUuid(job[r].cfg) => nextUuid < MaxUuids
  /\ LET res == cleaned_data(job[r].cfg, UuidOf(nextUuid + 1))
     IN  /\ IF res.ok
              THEN Finish(r, "cleaned_data", [job[r] EXCEPT !.cleaned = res.out])
              ELSE Fail(r, "cleaned_data", res.err, res.cause)
         /\ nextUuid' = IF DrawsUuid(job[r].cfg)
                        THEN nextUuid + 1 ELSE nextUuid
  /\ Quiet /\ UNCHANGED <<records, predictions, nextRun>>

\* The step stored_cleaned_data: the setup of the postgres resource (its
\* create_all leaves the tables that exist and their rows as they are),
\* and the asset, which wraps in a StorageError whatever it meets: the
\* error of building the adapter, or the StorageError of
\* save_housing_record, which may come after the row was committed.
StoredCleanedData(r, fault) ==
  /\ Runnable(r, "stored_cleaned_data")
  /\ LET save == IF fault.at = "get_adapter"
                   THEN [err |-> fault.err, stored |-> FALSE]
                 ELSE save_housing_record(
                        job[r].cleaned,
                        IF fault.at \in DbFaults THEN fault.at ELSE "none")
     IN  IF fault.at = "setup_for_execution"
           THEN /\ FailSetup(r, "stored_cleaned_data", fault.err)
                /\ UNCHANGED records
           ELSE /\ records' = IF save.stored THEN records \cup {job[r].cleaned}
                              ELSE records
                /\ IF save.err = NoVal
                     THEN Finish(r, "stored_cleaned_data",
                                 [job[r] EXCEPT !.stored = job[r].cleaned.id])
                     ELSE Fail(r, "stored_cleaned_data", "StorageError", save.err)
  /\ Quiet /\ UNCHANGED <<predictions, nextRun, nextUuid>>

PreparedDataSharedDict(r) ==
  /\ Runnable(r, "prepared_data")
  /\ Finish(r, "prepared_data",
            [job[r] EXCEPT !.prepared =
               [k \in DOMAIN prepared_data(job[r].cleaned) |->
                  IF /\ k \notin NumericKeys
                     /\ \E o \in RunIds : /\ "prepared_data" \in job[o].done
                                          /\ job[o].prepared[k] = 1
                    THEN 1
                  ELSE prepared_data(job[r].cleaned)[k]]])
  /\ Quiet /\ UNCHANGED <<records, predictions, nextRun, nextUuid>>

\* prepared_data: the features are built in a dictionary of their own; the
\* record is only read.
PreparedData(r) ==
  /\ Runnable(r, "prepared_data")
  /\ Finish(r, "prepared_data",
            [job[r] EXCEPT !.prepared = prepared_data(job[r].cleaned)])
  /\ Quiet /\ UNCHANGED <<records, predictions, nextRun, nextUuid>>

\* What joblib.load raises when the artifact is missing or unreadable.
LoadErrors == {"FileNotFoundError", "UnpicklingError"}

\* The ways the model fails a run: joblib.load raises in
\* setup_for_execution, before the asset is called; joblib.load raises in
\* ModelResource.predict, when nothing has loaded the artifact before;
\* the artifact's predict raises.
ModelFaults ==
  {[at |-> at, err |-> err] : at \in {"setup_for_execution", "load"},
                              err \in LoadErrors}
  \cup {[at |-> "predict", err |-> "Exception"]}

\* The step prediction_result: the setup of the model resource, and the
\* asset, which calls ModelResource.predict on the prepared features.  An
\* error of the setup is raised outside the asset, and nothing wraps it.
\* ModelResource.predict wraps what the artifact's predict raises in a
\* PredictionError, and not what joblib.load raises (the load comes before
\* the try); the asset wraps in a PredictionError whatever reaches it.
PredictionResult(r, fault) ==
  /\ Runnable(r, "prediction_result")
  /\ IF fault.at = "setup_for_execution"
       THEN FailSetup(r, "prediction_result", fault.err)
     ELSE IF fault.at = "load"
       THEN Fail(r, "prediction_result", "PredictionError", fault.err)
     ELSE IF fault.at = "predict"
       THEN Fail(r, "prediction_result", "PredictionError", "PredictionError")
     ELSE \E value \in ModelPredict(feature_values(job[r].prepared)) :
            Finish(r, "prediction_result", [job[r] EXCEPT !.pred = value])
  /\ Quiet /\ UNCHANGED <<records, predictions, nextRun, nextUuid>>

\* The keyword arguments stored_prediction_result gives Prediction.
StageKwargs(r) ==
  [record_id |-> job[r].stored, value |-> job[r].pred, created_at |-> "t",
   run_id |-> r]

\* The Prediction entity stored_prediction_result builds.
StagePrediction(r) == NewPrediction(StageKwargs(r))

\* The step stored_prediction_result: the setup of the postgres resource,
\* and the asset, which builds the Prediction, gets the adapter and calls
\* save_prediction, and wraps in a PredictionError whatever it meets.
StoredPredictionResult(r, fault) ==
  /\ Runnable(r, "stored_prediction_result")
  /\ LET prediction == StagePrediction(r)
         err == IF PredictionRaises(StageKwargs(r)) THEN "ValidationError"
                ELSE IF fault.at = "get_adapter" THEN fault.err
                ELSE save_prediction_err(prediction, fault.at \in DbFaults)
     IN  IF fault.at = "setup_for_execution"
           THEN /\ FailSetup(r, "stored_prediction_result", fault.err)
                /\ UNCHANGED predictions
         ELSE IF err = NoVal
           THEN /\ predictions' = predictions \cup {PredictionRowOf(prediction)}
                /\ Finish(r, "stored_prediction_result", job[r])
           ELSE /\ Fail(r, "stored_prediction_result", "PredictionError", err)
                /\ UNCHANGED predictions
  /\ Quiet /\ UNCHANGED <<records, nextRun, nextUuid>>

\* ------------------------------------------------------------- the engine
\* The engine launches a run it has accepted.
EngineLaunch(r) ==
  /\ engine[r] \in {"QUEUED", "NOT_STARTED", "STARTING"}
  /\ engine' = [engine EXCEPT ![r] = IF @ = "STARTING" THEN "STARTED" ELSE "STARTING"]
  /\ Quiet /\ UNCHANGED <<job, records, predictions, nextRun, nextUuid>>

\* Every step of the run has succeeded.  (No run of this job gets there:
\* its last step fails on every input, so the step is in no
\* specification's next-state relation.)
RunSuccess(r) ==
  /\ engine[r] = "STARTED"
  /\ job[r].done = Ops
  /\ engine' = [engine EXCEPT ![r] = "SUCCESS"]
  /\ Quiet /\ UNCHANGED <<job, records, predictions, nextRun, nextUuid>>

\* An operator of the engine terminates the run.
Cancel(r) ==
  /\ engine[r] \in {"QUEUED", "NOT_STARTED", "STARTING", "STARTED"}
  /\ engine' = [engine EXCEPT ![r] = "CANCELING"]
  /\ Quiet /\ UNCHANGED <<job, records, predictions, nextRun, nextUuid>>

Canceled(r) ==
  /\ engine[r] = "CANCELING"
  /\ engine' = [engine EXCEPT ![r] = "CANCELED"]
  /\ Quiet /\ UNCHANGED <<job, records, predictions, nextRun, nextUuid>>

\* ------------------------------------------------------- the specification
\* The service, the engine and the job in an environment every part of
\* which may fail.  The caller posts its next request once the engine is
\* done with the run of the request before, and one request more than it
\* starts runs.
Next ==
  \/ \E request \in Requests, clientErr \in ClientErrors \cup {"none"} :
       /\ nextRun < MaxFaultRuns /\ nextUuid <= MaxFaultRuns
       /\ \A r \in NewRunIds : engine[r] \in TerminalNative \cup {Absent}
       /\ SubmitPredictionRequest(request, clientErr)
  \/ \E dbFault \in DbFaults \cup {"none"} : StoreSubmittedRecord(dbFault)
  \/ \E run_id \in Issued \cup {GhostRun},
        clientErr \in ClientErrors \cup {"none"}, dbErr \in BOOLEAN :
          GetPredictionResult(run_id, clientErr, dbErr)
  \/ \E r \in RunIds : RawInput(r)
  \/ \E r \in RunIds : CleanedData(r)
  \/ \E r \in RunIds, fault \in StorageFaults \cup {NoFault} :
       StoredCleanedData(r, fault)
  \/ \E r \in RunIds : PreparedData(r)
  \/ \E r \in RunIds, fault \in ModelFaults \cup {NoFault} :
       PredictionResult(r, fault)
  \/ \E r \in RunIds, fault \in StorageFaults \cup {NoFault} :
       StoredPredictionResult(r, fault)
  \/ \E r \in RunIds : EngineLaunch(r)
  \/ \E r \in RunIds : Cancel(r)
  \/ \E r \in RunIds : Canceled(r)

Spec == Init /\ [][Next]_vars

\* ------------------------------------------------- repeated submissions
\* Callers post requests again and again, the same request too; the
\* database is healthy, and the engine accepts the runs or refuses them.
SubmitAgain(request, clientErr) ==
  /\ nextRun < MaxRuns
  /\ SubmitPredictionRequest(request, clientErr)

StoreAgain == StoreSubmittedRecord("none")

NextSubmissions ==
  \/ \E request \in Requests, clientErr \in ClientErrors \cup {"none"} :
       SubmitAgain(request, clientErr)
  \/ StoreAgain
  \/ \E r \in RunIds : EngineLaunch(r)

SpecSubmissions == Init /\ [][NextSubmissions]_vars

\* ---------------------------------------------------- several runs at once
\* The service submits runs one after the other while the engine executes
\* those it holds and callers poll; the environment is healthy.  The
\* engine and the tables are as an earlier request and its run have left
\* them.
NextRuns ==
  \/ \E request \in Requests :
       nextRun < MaxRuns /\ SubmitPredictionRequest(request, "none")
  \/ StoreSubmittedRecord("none")
  \/ \E run_id \in Issued \cup {GhostRun} :
       GetPredictionResult(run_id, "none", FALSE)
  \/ \E r \in RunIds : RawInput(r)
  \/ \E r \in RunIds : CleanedData(r)
  \/ \E r \in RunIds : StoredCleanedData(r, NoFault)
  \/ \E r \in RunIds : PreparedData(r)
  \/ \E r \in RunIds : PredictionResult(r, NoFault)
  \/ \E r \in RunIds : StoredPredictionResult(r, NoFault)
  \/ \E r \in RunIds : EngineLaunch(r)

SpecRuns == Init /\ [][NextRuns]_vars

\* ------------------------------------------------ the storage adapter alone
\* The four operations of PostgresAdapter, called on the tables as the
\* program leaves them: cleaned records that HousingRecord has validated,
\* and no prediction row (save_prediction stores none).
\* The Prediction objects callers hand to save_prediction, each built as
\* Prediction(id=..., record_id=..., value=..., created_at=...,
\* status=COMPLETED, run_id=...).
StorablePredictions ==
  {NewPrediction([id |-> "p1", record_id |-> rid, value |-> 320202,
                  created_at |-> "t", status |-> "completed", run_id |-> "r1"]) :
     rid \in {RecordOld.id, RecordA.id}}

\* The keys callers look up: run ids, record ids and prediction ids.
LookupKeys ==
  {OldRun, "r1", GhostRun, RecordOld.id, OldSubmitted.id, RecordA.id, "p1"}

InitStorage ==
  \E rs \in SUBSET {OldSubmitted, RecordOld} :
    /\ records = rs
    /\ predictions = {}
    /\ engine = [r \in RunIds |-> Absent]
    /\ job = [r \in RunIds |-> NoJob]
    /\ nextRun = 0
    /\ nextUuid = 0
    /\ inflight = NoSubmission
    /\ last = NoCall

SaveHousingRecord(record, dbFault) ==
  LET save == save_housing_record(record, dbFault)
      err == save.err
  IN  /\ records' = IF save.stored THEN records \cup {record} ELSE records
      /\ last' = [NoCall EXCEPT !.op = "save_housing_record", !.record = record,
                    !.store = [NoStore EXCEPT !.called = TRUE,
                                 !.raised = err # NoVal, !.err = err],
                    !.raised = err,
                    !.result = IF err = NoVal
                               THEN [NoResult EXCEPT !.kind = "id",
                                                     !.status = record.id]
                               ELSE NoResult]
      /\ UNCHANGED <<engine, job, predictions, nextRun, nextUuid, inflight>>

GetHousingRecord(record_id, dbErr) ==
  LET out == get_housing_record(record_id, dbErr)
  IN  /\ last' = [NoCall EXCEPT !.op = "get_housing_record", !.run = record_id,
                    !.record = out.record,
                    !.store = [NoStore EXCEPT !.called = TRUE,
                                 !.raised = out.err # NoVal, !.err = out.err,
                                 !.found = out.record # NoRecord],
                    !.raised = out.err,
                    !.result = IF out.record # NoRecord
                               THEN [NoResult EXCEPT !.kind = "HousingRecord",
                                                     !.status = out.record.id]
                               ELSE NoResult]
      /\ UNCHANGED <<engine, job, records, predictions, nextRun, nextUuid,
                     inflight>>

SavePrediction(prediction, dbErr) ==
  LET err == save_prediction_err(prediction, dbErr)
  IN  /\ predictions' = IF err = NoVal
                         THEN predictions \cup {PredictionRowOf(prediction)}
                         ELSE predictions
      /\ last' = [NoCall EXCEPT !.op = "save_prediction",
                    !.run = prediction["run_id"],
                    !.store = [NoStore EXCEPT !.called = TRUE,
                                 !.raised = err # NoVal, !.err = err,
                                 !.pred = prediction],
                    !.raised = err,
                    !.result = IF err = NoVal
                               THEN [NoResult EXCEPT !.kind = "id",
                                                     !.status = prediction["id"]]
                               ELSE NoResult]
      /\ UNCHANGED <<engine, job, records, nextRun, nextUuid, inflight>>

GetPrediction(run_id, dbErr) ==
  \E store \in get_prediction(run_id, dbErr) :
    /\ last' = [NoCall EXCEPT !.op = "get_prediction", !.run = run_id,
                  !.store = store,
                  !.raised = store.err,
                  !.result = IF store.found THEN Found(store.pred) ELSE NoResult]
    /\ UNCHANGED <<engine, job, records, predictions, nextRun, nextUuid,
                   inflight>>

NextStorage ==
  \/ \E record \in {RecordA, RecordB, RecordOld},
        dbFault \in DbFaults \cup {"none"} :
          SaveHousingRecord(record, dbFault)
  \/ \E record_id \in LookupKeys, dbErr \in BOOLEAN :
       GetHousingRecord(record_id, dbErr)
  \/ \E prediction \in StorablePredictions, dbErr \in BOOLEAN :
       SavePrediction(prediction, dbErr)
  \/ \E run_id \in LookupKeys, dbErr \in BOOLEAN : GetPrediction(run_id, dbErr)

SpecStorage == InitStorage /\ [][NextStorage]_vars

\* ----------------------------------------------- the service over its ports
\* PredictionService answers polls over an engine and a database that it
\* does not own: the engine reports any status of DagsterRunStatus for a
\* run id it knows (the runs of any job, launched by anyone), and the
\* tables hold any rows the schema admits (a primary key on id, a foreign
\* key from cleaned_record_id, no constraint on a value), those of other
\* writers too, so a cleaned record may lie outside what HousingRecord
\* accepts.
OldRow == [id |-> "p0", cleaned_record_id |-> RecordOld.id,
           prediction_value |-> OldValue, run_id |-> OldRun]
PurgedRun == "r9"
PurgedRow == [id |-> "p9", cleaned_record_id |-> RecordOld.id,
              prediction_value |-> 7, run_id |-> PurgedRun]
InvalidRecordRow == [RecordB EXCEPT !.id = "d0", !.longitude = 200]
InvalidRun == "r2"
InvalidRecordPrediction ==
  [id |-> "p8", cleaned_record_id |-> InvalidRecordRow.id,
   prediction_value |-> 5, run_id |-> InvalidRun]

PolledRuns == {OldRun, InvalidRun}

InitPolling ==
  \E st \in [PolledRuns -> NativeStatus \cup {Unrecognized, Absent}],
     rs \in SUBSET {RecordOld, InvalidRecordRow},
     ps \in SUBSET {OldRow, PurgedRow, InvalidRecordPrediction} :
    /\ \A row \in ps : \E c \in rs : c.id = row.cleaned_record_id
    /\ records = rs
    /\ predictions = ps
    /\ engine = [r \in RunIds |-> IF r \in PolledRuns THEN st[r] ELSE Absent]
    /\ job = [r \in RunIds |-> NoJob]
    /\ nextRun = 0
    /\ nextUuid = 0
    /\ inflight = NoSubmission
    /\ last = NoCall

NextPolling ==
  \E run_id \in Issued \cup {GhostRun},
     clientErr \in ClientErrors \cup {"none"}, dbErr \in BOOLEAN :
       GetPredictionResult(run_id, clientErr, dbErr)

SpecPolling == InitPolling /\ [][NextPolling]_vars

\* ------------------------------------------------------ payloads of a run
\* housing_prediction_job is launched with a run configuration of any
\* content: raw_input hands cleaned_data whatever the configuration holds.
\* The payloads are the sample payload and those that differ from it in a
\* few keys, and the payloads of the two other documented samples.
BasePayload == [RawDataOf(RecordA) EXCEPT !.record_id = "x1"]

PayloadKeys == NumericKeys \cup {"ocean_proximity", "record_id"}

\* Other values of a numeric key: a numeric string, a string that is no
\* number, None, no value, a value of another type, numbers on either
\* side of the bounds, and zero.  Other values of the two remaining keys: the other
\* categories, a string that is no category, an empty string, no value.
NumericAlternatives ==
  {NumStr(7), NumStr(-200), BadStr, NoneVal, Missing, Other, Num(-1), Num(200),
   Num(0)}
OceanAlternatives ==
  {"<1H OCEAN", "INLAND", "ISLAND", "NEAR BAY", "INVALID", "", NoVal}
RecordIdAlternatives == {NoVal, ""}

\* The sample payload with the numeric keys of changed set as the function
\* changed gives them, and with the given ocean_proximity and record_id.
PayloadWith(changed, ocean_proximity, record_id) ==
  [k \in PayloadKeys |->
     IF k \in DOMAIN changed THEN changed[k]
     ELSE IF k = "ocean_proximity" THEN ocean_proximity
     ELSE IF k = "record_id" THEN record_id
     ELSE BasePayload[k]]

\* The number of keys in which the payload differs from the sample.
Deviations(raw) == Cardinality({k \in PayloadKeys : raw[k] # BasePayload[k]})

CleaningRun == "r1"

CleaningInit(raw) ==
  /\ engine = [r \in RunIds |-> IF r = CleaningRun THEN "STARTED" ELSE Absent]
  /\ job = [r \in RunIds |->
              IF r = CleaningRun THEN [NoJob EXCEPT !.cfg = raw] ELSE NoJob]
  /\ records = {}
  /\ predictions = {}
  /\ nextRun = 1
  /\ nextUuid = 0
  /\ inflight = NoSubmission
  /\ last = NoCall

InitCleaning ==
  \/ \E record \in {RecordB, RecordC} :
       CleaningInit([RawDataOf(record) EXCEPT !.record_id = record.id])
  \/ \E keys \in SUBSET NumericKeys :
       /\ Cardinality(keys) <= MaxDeviations
       /\ \E changed \in [keys -> NumericAlternatives],
             ocean_proximity \in OceanAlternatives \cup {BasePayload.ocean_proximity},
             record_id \in RecordIdAlternatives \cup {BasePayload.record_id} :
            LET raw == PayloadWith(changed, ocean_proximity, record_id)
            IN  /\ Deviations(raw) <= MaxDeviations
                /\ CleaningInit(raw)

NextCleaning ==
  \/ \E r \in RunIds : RawInput(r)
  \/ \E r \in RunIds : CleanedData(r)

SpecCleaning == InitCleaning /\ [][NextCleaning]_vars

\* The whole job on one run with a payload of any content.
NextEncoding ==
  \/ \E r \in RunIds : RawInput(r)
  \/ \E r \in RunIds : CleanedData(r)
  \/ \E r \in RunIds, fault \in StorageFaults \cup {NoFault} :
       StoredCleanedData(r, fault)
  \/ \E r \in RunIds : PreparedData(r)
  \/ \E r \in RunIds, fault \in ModelFaults \cup {NoFault} :
       PredictionResult(r, fault)
  \/ \E r \in RunIds, fault \in StorageFaults \cup {NoFault} :
       StoredPredictionResult(r, fault)

SpecEncoding == InitCleaning /\ [][NextEncoding]_vars

\* ------------------------------------------------- one record, two runs
\* Two runs are launched with the same payload and a third with another
\* one; the engine executes their steps in any order.
ReencodedPayloads ==
  {BasePayload, RawDataOf(RecordB),
   [RawDataOf(RecordC) EXCEPT !.record_id = RecordC.id]}

InitReencoding ==
  \E same \in ReencodedPayloads, other \in ReencodedPayloads :
    /\ same # other
    /\ engine = [r \in RunIds |-> IF r = OldRun THEN Absent ELSE "STARTED"]
    /\ job = [r \in RunIds |->
                IF r = OldRun THEN NoJob
                ELSE [NoJob EXCEPT !.cfg = IF r = "r3" THEN other ELSE same]]
    /\ records = {}
    /\ predictions = {}
    /\ nextRun = 3
    /\ nextUuid = 0
    /\ inflight = NoSubmission
    /\ last = NoCall

SpecReencoding == InitReencoding /\ [][NextEncoding]_vars

\* ------------------------------------------------------------------ claims
IsPoll(call) == call.op = "get_prediction_result"
IsSubmit(call) == call.op = "submit_prediction_request"
RowsOf(run_id) == {row \in predictions : row.run_id = run_id}

\* C1: when the orchestrator reports completed for the polled run id and
\* the predictions table has no row for it, get_prediction_result returns
\* the string failed: it does not raise, and returns neither pending nor
\* completed.
C1_RaceTolerance ==
  (/\ IsPoll(last) /\ ~last.etl.raised /\ last.etl.status = "completed"
   /\ ~last.store.raised /\ RowsOf(last.run) = {})
  => last.result = Str("failed")

C1_Witness ==
  /\ IsPoll(last) /\ last.run \in RunIds /\ engine[last.run] = "SUCCESS"
  /\ last.etl.status = "completed"
  /\ last.store.called /\ ~last.store.raised /\ ~last.store.found
  /\ RowsOf(last.run) = {}
  /\ last.result = Str("failed")

\* C2: get_prediction_result never raises: every poll returns one of the
\* four coarse strings or a Prediction whose status is completed, and it
\* returns the string failed whenever get_pipeline_status or
\* storage.get_prediction raised.
C2_PollIsTotal ==
  IsPoll(last) =>
    /\ \/ last.result.kind = "str" /\ last.result.status \in Coarse
       \/ /\ last.result.kind = "Prediction"
          /\ last.result.pred["status"] = "completed"
    /\ (last.etl.raised \/ last.store.raised) => last.result = Str("failed")

C2_Witness ==
  /\ IsPoll(last) /\ ~last.etl.raised
  /\ last.store.called /\ last.store.raised /\ last.store.err = "StorageError"
  /\ last.result = Str("failed")

\* C3: when the orchestrator reports failed, pending or running, the poll
\* returns exactly that string and does not call storage.get_prediction;
\* failed is returned even when the table holds a row for the run id.
C3_NonCompletedStatusIsReturned ==
  (IsPoll(last) /\ ~last.etl.raised
     /\ last.etl.status \in {"failed", "pending", "running"})
  => (last.result = Str(last.etl.status) /\ ~last.store.called)

C3_Witness ==
  /\ IsPoll(last) /\ ~last.etl.raised /\ last.etl.status = "failed"
  /\ RowsOf(last.run) # {}
  /\ ~last.store.called
  /\ last.result = Str("failed")

\* C4: when the orchestrator reports completed and the table holds a row
\* with the polled run id (and the read succeeds), the poll returns a
\* Prediction built from a row of that run id: its run_id is the polled one
\* and its value and record_id are that row's, never another run's.
C4_CompletedReturnsStoredPrediction ==
  (/\ IsPoll(last) /\ ~last.etl.raised /\ last.etl.status = "completed"
   /\ ~last.store.raised /\ RowsOf(last.run) # {})
  => /\ last.result.kind = "Prediction"
     /\ last.result.pred["run_id"] = last.run
     /\ last.result.pred["status"] = "completed"
     /\ \E row \in RowsOf(last.run) :
          /\ last.result.pred["value"] = row.prediction_value
          /\ last.result.pred["record_id"] = row.cleaned_record_id
          /\ last.result.pred["record"].id = row.cleaned_record_id

C4_Witness ==
  /\ IsPoll(last) /\ last.run = OldRun /\ engine[OldRun] = "SUCCESS"
  /\ \E row \in predictions : row.run_id # OldRun
  /\ last.result.kind = "Prediction"
  /\ last.result.pred["value"] = OldValue

\* What a poll of run_id returns in the current state when neither
\* collaborator raises.
CleanPoll(run_id) ==
  LET etl == PipelineStatus(run_id, "none")
  IN  get_prediction_result(
        etl,
        IF CallsStorage(etl)
          THEN CHOOSE store \in get_prediction(run_id, FALSE) : TRUE
          ELSE NoStore)

\* The order pending -> running -> {completed | failed} of the outcomes.
Rank(result) ==
  IF result.kind = "Prediction" THEN 2
  ELSE IF result.status = "failed" THEN 2
  ELSE IF result.status = "running" THEN 1
  ELSE 0

\* b may be observed after a: it is not earlier in the order, and a
\* terminal outcome is followed by itself only.
InOrder(a, b) == Rank(a) <= Rank(b) /\ (Rank(a) = 2 => a = b)

\* C5 (as claimed): two successive polls of one run id never observe an
\* outcome followed by an earlier one, and a terminal outcome is followed
\* by itself only, whatever the engine, the storage and transient errors do.
C5_OutcomesNeverGoBack ==
  [][(IsPoll(last) /\ IsPoll(last') /\ last'.run = last.run
        /\ last.run \in RunIds)
     => InOrder(last.result, last'.result)]_vars

\* C5 (amended): a poll on which neither collaborator raises returns the
\* outcome the engine status and the table determine, and no step that
\* changes the engine or the tables moves that outcome back in the order
\* pending -> running -> {completed | failed} or changes it once terminal,
\* except the step in which a run enters cancellation (CANCELING reads as
\* pending again).
C5_CleanOutcomesAdvance ==
  [][/\ \A r \in RunIds :
          (IsPoll(last') /\ last'.run = r
             /\ ~last'.etl.raised /\ ~last'.store.raised)
          => last'.result = CleanPoll(r)'
     /\ \/ UNCHANGED <<engine, records, predictions>>
        \/ \A r \in RunIds :
             (engine[r] # Absent /\ engine'[r] # "CANCELING")
             => InOrder(CleanPoll(r), CleanPoll(r)')]_vars

C5_Witness ==
  /\ IsPoll(last) /\ last.run \in NewRunIds
  /\ ~last.etl.raised /\ engine[last.run] = "FAILURE"
  /\ job[last.run].failed = "stored_prediction_result"
  /\ last.result = Str("failed")

\* A failure the environment caused in a step of run r: the database
\* raised, or loading or calling the model artifact did.
EnvironmentFault(r) ==
  \/ job[r].cause \in {"StorageError", "OperationalError", "PredictionError"}
                      \cup LoadErrors
  \/ job[r].failed = "setup_for_execution"

\* C6: a run started by submit_prediction_request whose stages meet no
\* database or model error and which nobody cancels ends with its
\* Prediction persisted: once the engine is done with it, a poll returns a
\* completed Prediction of that run id carrying the value the model gave.
C6_EndToEnd ==
  \A r \in NewRunIds :
    (engine[r] \in {"SUCCESS", "FAILURE"} /\ ~EnvironmentFault(r))
    => /\ engine[r] = "SUCCESS"
       /\ CleanPoll(r).kind = "Prediction"
       /\ CleanPoll(r).pred["status"] = "completed"
       /\ CleanPoll(r).pred["run_id"] = r
       /\ CleanPoll(r).pred["value"] = job[r].pred

\* C7: when start_prediction_pipeline raises, submit_prediction_request
\* raises that same error, returns no run id, does not call
\* save_housing_record, and leaves the tables and the engine as they were.
C7_StartFailureLeavesNoTrace ==
  [][(IsSubmit(last') /\ last'.etl.raised)
     => /\ last'.raised = last'.etl.err
        /\ last'.raised \in ClientErrors
        /\ last'.result = NoResult
        /\ last'.run = NoVal
        /\ ~last'.store.called
        /\ records' = records /\ predictions' = predictions
        /\ engine' = engine /\ job' = job
        /\ inflight = NoSubmission /\ inflight' = NoSubmission]_vars

C7_Witness ==
  /\ IsSubmit(last) /\ last.etl.raised
  /\ last.raised = "DagsterGraphQLClientError"
  /\ last.result = NoResult
  /\ last.response = HTTPException(500)
  /\ last.record.id = UuidOf(1)
  /\ \A record \in records : record.id # last.record.id

\* The submission of run r has returned, and its record is not stored:
\* save_housing_record raised and stored nothing.
SaveFailed(r) ==
  /\ job[r].submitted # NoVal /\ inflight.run # r
  /\ \A record \in records : record.id # job[r].submitted

\* C8: when start_prediction_pipeline returned run id R and
\* save_housing_record then raises, submit_prediction_request raises the
\* storage error and returns no run id, and R stays in the engine with its
\* configuration, as far as the engine has taken it by then: the step
\* neither cancels nor removes it, and changes no run; and R can still
\* progress to completed: when the engine is done with it and its steps
\* met no fault of the environment, it has succeeded.
C8_SaveFailureKeepsRun ==
  /\ [][(IsSubmit(last') /\ ~last'.etl.raised /\ last'.store.raised)
        => /\ last'.raised = "StorageError"
           /\ last'.result = NoResult
           /\ last'.run \in NewRunIds
           /\ inflight.run = last'.run /\ inflight' = NoSubmission
           /\ engine[last'.run] # Absent
           /\ engine' = engine
           /\ job' = job
           /\ job[last'.run].cfg = RawDataOf(last'.record)]_vars
  /\ [](\A r \in NewRunIds :
          (/\ SaveFailed(r)
           /\ engine[r] \in {"SUCCESS", "FAILURE"}
           /\ ~EnvironmentFault(r))
          => engine[r] = "SUCCESS")

\* The mapping the specification gives for the native statuses.
CoarseOf(native) ==
  CASE native = "SUCCESS" -> "completed"
    [] native \in {"FAILURE", "CANCELED"} -> "failed"
    [] native = "STARTED" -> "running"
    [] OTHER -> "pending"

\* C9: whenever get_pipeline_status returns, it returns the coarse status
\* of the native status the engine holds for the run: completed for
\* SUCCESS, failed for FAILURE and CANCELED, running for STARTED, pending
\* for every other value.
C9_StatusMappingIsTotal ==
  (IsPoll(last) /\ ~last.etl.raised)
  => /\ last.run \in RunIds
     /\ last.etl.native = engine[last.run]
     /\ last.etl.status = CoarseOf(engine[last.run])
     /\ last.etl.status \in Coarse

C9_Witness ==
  /\ IsPoll(last) /\ ~last.etl.raised
  /\ last.etl.native = "CANCELED" /\ last.etl.status = "failed"

\* C10: when the engine client raises while the status is queried (a
\* transport error, or a run id the engine does not know),
\* get_pipeline_status raises PipelineError with the client's error as its
\* cause and returns no status.
C10_StatusQueryErrorIsPipelineError ==
  (IsPoll(last) /\ (last.etl.cause # NoVal \/ last.run \notin Issued))
  => /\ last.etl.raised
     /\ last.etl.err = "PipelineError"
     /\ last.etl.cause \in ClientErrors
     /\ last.etl.status = NoVal

C10_Witness ==
  /\ IsPoll(last) /\ last.run \in Issued
  /\ last.etl.raised /\ last.etl.err = "PipelineError"
  /\ last.etl.cause = "Exception"

\* C11: start_prediction_pipeline returns the run id the engine issued for
\* the submission, and when the submission raises, the caller gets an error
\* that wraps the client's error (another error, with the client's as its
\* cause) and no run id.
C11_StartErrorIsWrapped ==
  /\ (IsSubmit(last) /\ last.etl.raised)
       => /\ last.etl.cause \in ClientErrors
          /\ last.etl.err # last.etl.cause
          /\ last.run = NoVal
          /\ last.result.kind # "run_id"
  /\ inflight # NoSubmission
       => /\ inflight.run = RunIdOf(nextRun)
          /\ engine[inflight.run] # Absent
          /\ job[inflight.run].cfg = RawDataOf(inflight.record)
  /\ (IsSubmit(last) /\ last.store.called)
       => /\ last.run = RunIdOf(nextRun)
          /\ engine[last.run] # Absent
          /\ job[last.run].cfg = RawDataOf(last.record)

\* The record a submission stored for run r.
SubmittedRecord(r) == CHOOSE record \in records : record.id = job[r].submitted
\* The submission of run r has returned with its record stored.
Returned(r) ==
  /\ job[r].submitted # NoVal /\ inflight.run # r
  /\ \E record \in records : record.id = job[r].submitted

\* C12: there is no deduplication: every request the engine accepts, on a
\* healthy database, returns its run id, distinct from the run ids issued
\* before, and leaves its record stored, also when the same request was
\* posted before; two submissions that returned have distinct run ids and
\* each its own stored record.
C12_NoDeduplication ==
  /\ (IsSubmit(last) /\ last.run # NoVal)
     => /\ last.result.kind = "run_id"
        /\ last.result.status = last.run
        /\ last.run = RunIdOf(nextRun)
        /\ last.raised = NoVal
        /\ last.response = PredictionSubmissionResponse(last.run)
        /\ last.record \in records
  /\ \A ra \in NewRunIds, rb \in NewRunIds :
       (ra # rb /\ Returned(ra) /\ Returned(rb))
       => /\ job[ra].submitted # job[rb].submitted
          /\ \E record \in records : record.id = job[ra].submitted
          /\ \E record \in records : record.id = job[rb].submitted

\* The same request was posted twice: both submissions returned, under two
\* run ids, and left two stored records that differ in their id only.
C12_Witness ==
  /\ Returned("r1") /\ Returned("r2")
  /\ IsSubmit(last) /\ last.run = "r2" /\ last.raised = NoVal
  /\ SubmittedRecord("r1") # SubmittedRecord("r2")
  /\ [SubmittedRecord("r1") EXCEPT !.id = NoVal]
       = [SubmittedRecord("r2") EXCEPT !.id = NoVal]

\* A step writes to run r: to its status, its job or its rows.
Touches(r) ==
  \/ engine'[r] # engine[r]
  \/ job'[r] # job[r]
  \/ RowsOf(r)' # RowsOf(r)

CleaningDone(r) == "cleaned_data" \in job[r].done
CleaningFailed(r) == job[r].failed = "cleaned_data"
CleaningTried(r) == CleaningDone(r) \/ CleaningFailed(r)

\* The vocabulary of the specification: the five categories, the values of
\* a numeric key that stand for a number, the bounds of each numeric field,
\* and the payloads that are valid.
FiveCategories == {"<1H OCEAN", "INLAND", "ISLAND", "NEAR BAY", "NEAR OCEAN"}
StandsForNumber(x) == x.t \in {"num", "numstr"}
InRange(f, v) ==
  IF f = "longitude" THEN v >= -180 /\ v <= 180
  ELSE IF f = "latitude" THEN v >= -90 /\ v <= 90
  ELSE v >= 0
ValidPayload(raw) ==
  /\ \A f \in NumericKeys : StandsForNumber(raw[f]) /\ InRange(f, raw[f].v)
  /\ raw.ocean_proximity \in FiveCategories
AsNumbers(raw) ==
  [k \in DOMAIN raw |->
     IF k \in NumericKeys THEN (IF raw[k].t = "numstr" THEN Num(raw[k].v) ELSE raw[k])
     ELSE raw[k]]

\* C14: a payload whose ocean_proximity is missing or is none of the five
\* categories fails cleaned_data with DataValidationError, whatever its
\* other keys hold, and no record comes out.
C14_OceanProximityOutsideTheFive ==
  \A r \in RunIds :
    (CleaningTried(r) /\ job[r].cfg.ocean_proximity \notin FiveCategories)
    => /\ CleaningFailed(r)
       /\ job[r].err = "DataValidationError"
       /\ job[r].cleaned = NoRecord
       /\ engine[r] = "FAILURE"

C14_Witness ==
  \E r \in RunIds :
    /\ CleaningFailed(r) /\ job[r].cfg.ocean_proximity = "INVALID"
    /\ \A f \in NumericKeys : job[r].cfg[f] = BasePayload[f]
    /\ job[r].err = "DataValidationError"

\* C15: for each of the eight numeric keys, a string that encodes a number
\* counts as that number (the payload fares as the payload with the number
\* in its place, and the record that comes out holds the number), and a
\* string that is no number, a missing value or a value of another type
\* fails cleaned_data with DataValidationError.
C15_NumericFieldsAreCoerced ==
  \A r \in RunIds :
    CleaningTried(r)
    => LET cfg == job[r].cfg
           asNumbers == cleaned_data(AsNumbers(cfg), job[r].cleaned.id)
       IN  /\ (\E f \in NumericKeys : ~StandsForNumber(cfg[f]))
                => /\ CleaningFailed(r)
                   /\ job[r].err = "DataValidationError"
                   /\ job[r].cleaned = NoRecord
           /\ CleaningDone(r)
                => \A f \in NumericKeys :
                     StandsForNumber(cfg[f]) /\ job[r].cleaned[f] = cfg[f].v
           /\ asNumbers.ok = CleaningDone(r)
           /\ asNumbers.out = job[r].cleaned
           /\ asNumbers.err = job[r].err

C15_Witness ==
  \E r \in RunIds :
    /\ CleaningDone(r)
    /\ job[r].cfg.total_rooms = NumStr(7) /\ job[r].cleaned.total_rooms = 7
    /\ job[r].cfg.longitude = NumStr(7) /\ job[r].cleaned.longitude = 7

\* C16: a payload one of whose numeric fields is out of its range
\* (longitude outside [-180, 180], latitude outside [-90, 90], another
\* field negative) fails cleaned_data with DataValidationError and with no
\* other kind of error, and no record comes out.
C16_RangeViolationIsValidationError ==
  \A r \in RunIds :
    (/\ CleaningTried(r)
     /\ \E f \in NumericKeys :
          StandsForNumber(job[r].cfg[f]) /\ ~InRange(f, job[r].cfg[f].v))
    => /\ CleaningFailed(r)
       /\ job[r].err = "DataValidationError"
       /\ job[r].cleaned = NoRecord

\* C17: a payload that is valid but for its total_bedrooms, which is absent
\* or None, passes cleaned_data, and the record that comes out has
\* total_bedrooms 0.
C17_MissingBedroomsAreFilled ==
  \A r \in RunIds :
    (/\ CleaningTried(r)
     /\ job[r].cfg.total_bedrooms \in {NoneVal, Missing}
     /\ ValidPayload([job[r].cfg EXCEPT !.total_bedrooms = Num(0)]))
    => /\ CleaningDone(r)
       /\ job[r].cleaned.total_bedrooms = 0

\* C18: a valid payload passes cleaned_data, and the record that comes out
\* holds the payload's nine values (numeric strings as their numbers) and
\* has the payload's record_id as its id when there is one, else an
\* identifier drawn from uuid4(), which is not empty.
C18_ValidPayloadBecomesItsRecord ==
  \A r \in RunIds :
    (CleaningTried(r) /\ ValidPayload(job[r].cfg))
    => /\ CleaningDone(r)
       /\ engine[r] = "STARTED"
       /\ \A f \in NumericKeys : job[r].cleaned[f] = job[r].cfg[f].v
       /\ job[r].cleaned.ocean_proximity = job[r].cfg.ocean_proximity
       /\ IF job[r].cfg.record_id \notin {NoVal, ""}
            THEN job[r].cleaned.id = job[r].cfg.record_id
            ELSE /\ job[r].cleaned.id \in {UuidOf(n) : n \in 1..nextUuid}
                 /\ job[r].cleaned.id \notin {NoVal, ""}

C18_Witness ==
  \E r \in RunIds :
    /\ CleaningDone(r)
    /\ job[r].cfg.record_id = NoVal /\ job[r].cleaned.id = UuidOf(1)
    /\ job[r].cfg.ocean_proximity = "INLAND"
    /\ job[r].cleaned.ocean_proximity = "INLAND"

\* The encoding stage of run r has finished.
EncodingDone(r) == "prepared_data" \in job[r].done

\* The order of the categories in the one-hot expansion.
CategoryOrder == <<"<1H OCEAN", "INLAND", "ISLAND", "NEAR BAY", "NEAR OCEAN">>

\* C19: for every record prepared_data has encoded, the features
\* ModelResource.predict hands the model are 13: longitude, latitude,
\* housing_median_age, total_rooms, total_bedrooms, population, households,
\* median_income in that order, and then one feature for each of the five
\* categories in their order, 1 at the record's category, 0 at the others.
C19_ThirteenFeaturesInOrder ==
  \A r \in RunIds :
    EncodingDone(r)
    => LET rec == job[r].cleaned
           f == feature_values(job[r].prepared)
       IN  /\ Len(f) = 13
           /\ <<f[1], f[2], f[3], f[4], f[5], f[6], f[7], f[8]>>
                = <<rec.longitude, rec.latitude, rec.housing_median_age,
                    rec.total_rooms, rec.total_bedrooms, rec.population,
                    rec.households, rec.median_income>>
           /\ \A i \in 1..5 :
                f[8 + i] = IF CategoryOrder[i] = rec.ocean_proximity THEN 1 ELSE 0
           /\ Cardinality({i \in 1..5 : f[8 + i] = 1}) = 1

C19_Witness ==
  \E r \in RunIds :
    /\ EncodingDone(r)
    /\ job[r].cleaned.ocean_proximity = "ISLAND"
    /\ job[r].cleaned.total_rooms = 7
    /\ feature_values(job[r].prepared)[11] = 1
    /\ feature_values(job[r].prepared)[4] = 7

\* Two records with the same fields (the id apart).
SameRecord(a, b) == [a EXCEPT !.id = NoVal] = [b EXCEPT !.id = NoVal]

\* C20: encoding is deterministic and stateless, and leaves the record as
\* it is: the step of prepared_data changes neither the record it encodes
\* nor the tables; the features of a record stay what they were, whatever
\* the other stages and the database do after it; and two runs that have
\* encoded the same record hold the same features, whatever was encoded,
\* predicted or stored between the two.
C20_EncodingIsPure ==
  [][/\ \A r \in RunIds :
          /\ (EncodingDone(r)' /\ ~EncodingDone(r))
               => /\ job'[r].cleaned = job[r].cleaned
                  /\ records' = records /\ predictions' = predictions
          /\ EncodingDone(r) => job'[r].prepared = job[r].prepared
     /\ \A ra \in RunIds, rb \in RunIds :
          (/\ EncodingDone(ra)' /\ EncodingDone(rb)'
           /\ SameRecord(job'[ra].cleaned, job'[rb].cleaned))
          => job'[ra].prepared = job'[rb].prepared]_vars

\* Two runs have encoded the same record to the same features, a third has
\* encoded a record of another category and computed its prediction, and
\* the record of the first is stored.
C20_Witness ==
  /\ EncodingDone("r1") /\ EncodingDone("r2") /\ EncodingDone("r3")
  /\ job["r1"].cleaned = job["r2"].cleaned
  /\ job["r1"].prepared = job["r2"].prepared
  /\ job["r3"].cleaned.ocean_proximity # job["r1"].cleaned.ocean_proximity
  /\ job["r3"].prepared # job["r1"].prepared
  /\ "prediction_result" \in job["r3"].done
  /\ job["r1"].cleaned \in records

\* stored_prediction_result of run r has built its Prediction: the stage
\* has finished, or has failed.
PersistTried(r) ==
  \/ "stored_prediction_result" \in job[r].done
  \/ job[r].failed = "stored_prediction_result"

\* C21: no Prediction exists with an empty record_id or a negative value
\* (constructing one raises a validation error): whenever
\* stored_prediction_result has constructed the Prediction of its run,
\* whatever value the model gave, the construction was refused or the
\* Prediction has a value that is not negative and a record_id that is not
\* empty.
C21_PredictionInvariants ==
  \A r \in RunIds :
    PersistTried(r)
    => \/ job[r].cause = "ValidationError"
       \/ /\ StagePrediction(r)["value"] >= 0
          /\ StagePrediction(r)["record_id"] \notin {NoVal, ""}

\* The calls of the storage adapter.
IsGetPrediction(call) == call.op = "get_prediction"
IsStorageCall(call) ==
  call.op \in {"save_housing_record", "get_housing_record", "save_prediction",
               "get_prediction"}

\* C23: get_prediction returns None and raises nothing when no row of the
\* predictions table carries the run id; every failure it meets while
\* reading leaves it as StorageError; and a failure of the database in
\* save_housing_record, get_housing_record or save_prediction leaves these
\* as StorageError too (the AttributeError save_prediction raises before it
\* reaches the database is no failure of the database).
C23_ReadFailuresAreStorageErrors ==
  /\ (IsGetPrediction(last) /\ RowsOf(last.run) = {} /\ last.raised # "StorageError")
       => (last.raised = NoVal /\ last.result = NoResult /\ ~last.store.found)
  /\ (IsGetPrediction(last) /\ last.raised # NoVal) => last.raised = "StorageError"
  /\ (/\ IsStorageCall(last) /\ ~IsGetPrediction(last)
      /\ last.raised \notin {NoVal, "AttributeError"})
       => last.raised = "StorageError"

\* The query of get_prediction failed on tables that hold a record a
\* caller saved, and the call raised StorageError.
C23_Witness ==
  /\ IsGetPrediction(last) /\ last.run = "r1"
  /\ last.raised = "StorageError" /\ last.result = NoResult
  /\ RecordA \in records

IsSavePrediction(call) == call.op = "save_prediction"

\* C24: save_prediction of a Prediction whose record is stored succeeds,
\* when the database does not fail, and returns the Prediction's id, and
\* get_prediction of its run id then returns a Prediction with the same
\* record_id, value and run_id and with status completed; get_prediction
\* looks rows up by run id, so whatever it returns carries the key it was
\* called with as its run id.
C24_PredictionRoundTrip ==
  /\ (/\ IsSavePrediction(last)
      /\ \E c \in records : c.id = last.store.pred["record_id"]
      /\ last.raised # "StorageError")
     => /\ last.raised = NoVal
        /\ last.result.kind = "id"
        /\ \E store \in get_prediction(last.run, FALSE) :
             /\ store.found
             /\ store.pred["record_id"] = last.store.pred["record_id"]
             /\ store.pred["value"] = last.store.pred["value"]
             /\ store.pred["run_id"] = last.run
             /\ store.pred["status"] = "completed"
  /\ (IsGetPrediction(last) /\ last.store.found)
     => last.store.pred["run_id"] = last.run

\* C25: the Prediction of a run that submit_prediction_request started is
\* correlated with the submission: the Prediction stored_prediction_result
\* builds for run R, which is what a poll of R returns once R has completed,
\* has run_id R and has as record_id the id of the record that was
\* submitted.
C25_RunToRecordCorrelation ==
  \A r \in NewRunIds :
    PersistTried(r)
    => /\ StagePrediction(r)["run_id"] = r
       /\ StagePrediction(r)["record_id"] = job[r].submitted

\* C26: the response of a poll through the API has the polled run id, and
\* its shape follows what the service returned: status completed with the
\* prediction value and a completed_at exactly when the service returned a
\* Prediction; status failed, with no prediction value, exactly when the
\* service returned the string failed; and otherwise the status pending or
\* running that the service returned, with no prediction and no
\* completed_at.
C26_PollResponseShape ==
  IsPoll(last)
  => LET response == last.response
         result == last.result
     IN  /\ response.run_id = last.run
         /\ response.status = "completed" <=> result.kind = "Prediction"
         /\ response.status = "completed"
              => /\ response.has_prediction
                 /\ response.prediction = result.pred["value"]
                 /\ response.completed_at # NoVal
         /\ response.status = "failed" <=> result = Str("failed")
         /\ response.status = "failed"
              => ~response.has_prediction /\ response.completed_at # NoVal
         /\ response.status \notin {"completed", "failed"}
              => /\ response.status \in {"pending", "running"}
                 /\ result = Str(response.status)
                 /\ ~response.has_prediction
                 /\ response.completed_at = NoVal

C26_Witness ==
  /\ IsPoll(last) /\ last.run = OldRun
  /\ last.result.kind = "Prediction"
  /\ last.response = PredictionCompletedResponse(OldRun, OldValue, "t")
  /\ engine[OldRun] = "SUCCESS"

\* The stages before the persisting of the Prediction.
EarlierStages ==
  {"cleaned_data", "stored_cleaned_data", "prepared_data", "prediction_result"}

\* C27: the stages of a run come in the order of the job:
\* stored_prediction_result runs only after prediction_result and
\* stored_cleaned_data have succeeded, and these only after cleaned_data;
\* so when the Prediction is persisted the cleaned record it refers to is
\* in the table already, every row of the predictions table refers to a
\* stored record, and a run one of whose earlier stages failed has no row
\* in the predictions table.
C27_StageOrdering ==
  /\ \A r \in RunIds :
       /\ PersistTried(r)
            => /\ {"prediction_result", "stored_cleaned_data"} \subseteq job[r].done
               /\ job[r].cleaned \in records
               /\ StagePrediction(r)["record_id"] = job[r].cleaned.id
       /\ "prediction_result" \in job[r].done => "prepared_data" \in job[r].done
       /\ ("prepared_data" \in job[r].done \/ "stored_cleaned_data" \in job[r].done)
            => "cleaned_data" \in job[r].done
       /\ job[r].failed \in EarlierStages \cup {"setup_for_execution"}
            => /\ RowsOf(r) = {}
               /\ "stored_prediction_result" \notin job[r].done
  /\ \A row \in predictions : \E c \in records : c.id = row.cleaned_record_id

\* A run whose Prediction was about to be persisted after both branches of
\* the job had finished, and the record of which is stored.
C27_Witness ==
  \E r \in NewRunIds :
    /\ PersistTried(r) /\ EarlierStages \subseteq job[r].done
    /\ job[r].cleaned \in records /\ job[r].cleaned.id = UuidOf(1)

\* C28: a stage that fails leaves as the error kind of that stage, with the
\* error it met as the cause, and returns no output: cleaned_data raises
\* the DataValidationError of its own checks as it is and DataCleaningError
\* around any other error; stored_cleaned_data raises StorageError,
\* prediction_result PredictionError and stored_prediction_result
\* PredictionError around whatever they met.  (What the setup of a
\* resource raises is raised before the stage is called, outside it, and
\* the stage has no output either.)
C28_StageErrorTaxonomy ==
  \A r \in RunIds :
    job[r].failed # NoVal
    => /\ job[r].failed \notin job[r].done
       /\ engine[r] = "FAILURE"
       /\ job[r].failed = "cleaned_data"
            => /\ job[r].err \in {"DataValidationError", "DataCleaningError"}
               /\ job[r].err = "DataValidationError"
                    => job[r].cause \in {NoVal, "ValueError"}
               /\ job[r].err = "DataCleaningError"
                    => job[r].cause \notin {NoVal, "DataValidationError"}
               /\ job[r].cleaned = NoRecord
       /\ job[r].failed = "stored_cleaned_data"
            => /\ job[r].err = "StorageError" /\ job[r].cause # NoVal
               /\ job[r].stored = NoVal
       /\ job[r].failed = "prediction_result"
            => /\ job[r].err = "PredictionError" /\ job[r].cause # NoVal
               /\ job[r].pred = 0
       /\ job[r].failed = "stored_prediction_result"
            => /\ job[r].err = "PredictionError" /\ job[r].cause # NoVal
               /\ RowsOf(r) = {}
       /\ job[r].failed = "setup_for_execution"
            => /\ job[r].step \in {"stored_cleaned_data", "prediction_result",
                                   "stored_prediction_result"}
               /\ job[r].step \notin job[r].done
               /\ job[r].cause = NoVal
               /\ job[r].step = "stored_cleaned_data" => job[r].stored = NoVal
               /\ job[r].step = "prediction_result" => job[r].pred = 0
               /\ job[r].step = "stored_prediction_result" => RowsOf(r) = {}
       /\ job[r].failed \notin {NoVal, "setup_for_execution"}
            => job[r].step = job[r].failed
       /\ job[r].failed \notin {"raw_input", "prepared_data"}

C28_Witness ==
  \E r \in RunIds :
    /\ job[r].failed = "stored_cleaned_data"
    /\ job[r].err = "StorageError" /\ job[r].cause = "StorageError"
    /\ "prediction_result" \in job[r].done
    /\ job[r].stored = NoVal /\ records = {}

\* C29: a poll is read-only: whatever it returns, the step of
\* get_prediction_result leaves the stored records, the stored predictions,
\* the status of every run in the engine and the progress of every run as
\* they were, and starts no run; what the runs do next and what gets
\* persisted therefore does not depend on polls.
C29_PollingIsReadOnly ==
  [][IsPoll(last')
     => /\ records' = records
        /\ predictions' = predictions
        /\ engine' = engine
        /\ job' = job
        /\ nextRun' = nextRun /\ nextUuid' = nextUuid
        /\ inflight' = inflight]_vars

\* A poll that found the Prediction of a completed run, while another run
\* is in progress; the row is still there.
C29_Witness ==
  /\ IsPoll(last) /\ last.run = OldRun /\ last.store.found
  /\ RowsOf(OldRun) = {OldRow}
  /\ engine[InvalidRun] = "STARTED"

\* C30: the two encoders agree: for every record the pipeline has encoded,
\* the array SklearnModelAdapter._record_to_features builds from the record
\* has 13 elements and equals, position by position, the values
\* ModelResource.predict takes from the output of prepared_data for that
\* record.
C30_EncodersAgree ==
  \A r \in RunIds :
    EncodingDone(r)
    => /\ Len(record_to_features(job[r].cleaned)) = 13
       /\ \A i \in 1..13 :
            record_to_features(job[r].cleaned)[i]
              = feature_values(job[r].prepared)[i]

C30_Witness ==
  \E r \in RunIds :
    /\ EncodingDone(r)
    /\ job[r].cleaned.ocean_proximity = "INLAND"
    /\ job[r].cleaned.households = 200
    /\ record_to_features(job[r].cleaned)[10] = 1
    /\ feature_values(job[r].prepared)[10] = 1
    /\ record_to_features(job[r].cleaned)[7] = 200
====
